---------------------------- MODULE Spec2Model ----------------------------
(***************************************************************************)
(* A model of the vertagger metadata-enrichment service:                   *)
(*   - ArticleService (api/v1_0/services.py): _prepare_input_text,         *)
(*     _validate_and_score_output, process_article;                        *)
(*   - the API-key dependency (api/dependencies.py), the extraction        *)
(*     endpoint (api/v1_0/endpoints.py) and its response model             *)
(*     (api/v1_0/models.py);                                               *)
(*   - the startup logic (main.py): load_prompt_on_startup, lifespan.      *)
(*                                                                         *)
(* Python values are tagged tuples, so that values of different Python     *)
(* types can be compared: <<"none">>, <<"str", s>>, <<"num", digits>>,     *)
(* <<"list", seq>>, <<"dict", record>>.  A dict is a record over a fixed   *)
(* key universe in which a missing key holds <<"absent">>.                 *)
(***************************************************************************)
EXTENDS Naturals, Sequences, FiniteSets, TLC

VARIABLES
    \* ---- unit harness: one call of _prepare_input_text
    u_article,      \* the article_data dict handed to the call
    u_text,         \* <<"pending">> or <<"str", returned text>>
    \* ---- unit harness: one call of _validate_and_score_output
    v_raw,          \* the llm_output string handed to the call
    v_ret,          \* [state, kind, value, exc]: how the call ended
    v_trace,        \* the batches of feedback scores sent to the trace
    \* ---- the service
    phase,          \* "boot", "serving" or "failed"
    prompt_file,    \* the content of api/v1_0/prompt.yaml (or no file)
    app_state,      \* app.state: [set, openai_client, system_prompt]
    startup_error,  \* the exception that ended the startup, or "none"
    pc,             \* per request: "idle", "awaiting" or "done"
    via,            \* per request: "none", "http" or "direct"
    header,         \* per request: the X-API-Key header
    article,        \* per request: the article_data dict
    sent,           \* per request: the chat.completions.create calls made
    completion,     \* per request: what the provider answered
    trace,          \* per request: the feedback-score batches of its trace
    validator_calls,\* per request: how often the validator was invoked
    outcome,        \* per request: how the request ended
    overlapped      \* history: some call entered process_article while
                    \* another was waiting for the model

unit_prepare_vars == <<u_article, u_text>>
unit_validate_vars == <<v_raw, v_ret, v_trace>>
request_vars == <<pc, via, header, article, sent, completion, trace,
                  validator_calls, outcome, overlapped>>
startup_vars == <<phase, prompt_file, app_state, startup_error>>
vars == <<u_article, u_text, v_raw, v_ret, v_trace, phase, prompt_file,
          app_state, startup_error, pc, via, header, article, sent,
          completion, trace, validator_calls, outcome, overlapped>>

---------------------------------------------------------------------------
(* Python values *)

PyNone == <<"none">>
PyAbsent == <<"absent">>
PyStr(s) == <<"str", s>>
PyNum(digits) == <<"num", digits>>
PyList(seq) == <<"list", seq>>
PyDict(rec) == <<"dict", rec>>

IsStr(v) == v[1] = "str"

\* dict.get(key): the value, or None when the key is missing
DictGet(d, key) == IF d[key] = PyAbsent THEN PyNone ELSE d[key]

\* dict.get(key, default)
DictGetDefault(d, key, default) == IF d[key] = PyAbsent THEN default ELSE d[key]

\* the keys a dict holds
DictKeys(d) == {k \in DOMAIN d : d[k] # PyAbsent}

\* bool(value), as `if value:` and `not value` evaluate it
Truthy(v) ==
    CASE v[1] = "none" -> FALSE
      [] v[1] = "str" -> v[2] # ""
      [] v[1] = "num" -> v[2] # "0"
      [] v[1] = "list" -> v[2] # <<>>
      [] v[1] = "dict" -> DictKeys(v[2]) # {}
      [] OTHER -> FALSE

\* str(value), as an f-string renders it
Format(v) ==
    CASE v[1] = "none" -> "None"
      [] v[1] = "str" -> v[2]
      [] v[1] = "num" -> v[2]
      [] OTHER -> "<object>"

\* sep.join(parts)
RECURSIVE Join(_, _)
Join(sep, parts) ==
    IF parts = <<>> THEN ""
    ELSE IF Len(parts) = 1 THEN parts[1]
    ELSE parts[1] \o sep \o Join(sep, Tail(parts))

---------------------------------------------------------------------------
(* ArticleService._prepare_input_text *)

HEADER_LINE == "Hier sind die zu verarbeitenden Artikel-Daten:"

field_order == <<"ArtikelID", "Titel", "Subtitel", "Teaser", "Text">>

FieldBlock(key, value) == "--- " \o key \o " ---\n" \o Format(value)

\* a plausible slip: `if value is not None` instead of `if value`
RECURSIVE AppendFieldsNotNone(_, _, _)
AppendFieldsNotNone(input_parts, article_data, keys) ==
    IF keys = <<>> THEN input_parts
    ELSE LET key == Head(keys)
             value == DictGet(article_data, key)
         IN  AppendFieldsNotNone(
                 IF value # PyNone
                 THEN Append(input_parts, FieldBlock(key, value))
                 ELSE input_parts,
                 article_data, Tail(keys))

\* the loop `for key in field_order`
RECURSIVE AppendFields(_, _, _)
AppendFields(input_parts, article_data, keys) ==
    IF keys = <<>> THEN input_parts
    ELSE LET key == Head(keys)
             value == DictGet(article_data, key)
         IN  AppendFields(
                 IF Truthy(value)
                 THEN Append(input_parts, FieldBlock(key, value))
                 ELSE input_parts,
                 article_data, Tail(keys))

_prepare_input_text(article_data) ==
    Join("\n\n", AppendFields(<<HEADER_LINE>>, article_data, field_order))

---------------------------------------------------------------------------
(* Inputs of the unit harness for _prepare_input_text *)

OptionalText(s) == {PyNone, PyStr(""), PyStr(s)}

UnitArticles ==
    [ArtikelID : {PyStr("42"), PyStr("7"), PyStr("")},
     Titel : {PyStr("T"), PyStr("")},
     Subtitel : OptionalText("Sub"),
     Teaser : OptionalText("Tea"),
     Text : OptionalText("Body")]

NoArticle ==
    [ArtikelID |-> PyAbsent, Titel |-> PyAbsent, Subtitel |-> PyAbsent,
     Teaser |-> PyAbsent, Text |-> PyAbsent]

Pending == <<"pending">>

---------------------------------------------------------------------------
(* JSON: json.dumps and json.loads over a bounded universe of documents *)

\* the keys a document may hold: ArtikelID and the fields of ArticleOutput
JsonKeyOrder ==
    <<"artikel_id", "ArtikelID", "personen", "organisationen", "regionen",
      "stichwoerter", "zusammenfassung", "userneeds", "audiences",
      "audience_1_begruendung", "audience_2_begruendung",
      "audience_3_begruendung", "iab_content_taxonomy">>

\* a document with all thirteen keys given
JsonDocument(aid, AID, pe, og, re, st, zu, un, au, b1, b2, b3, ia) ==
    PyDict([artikel_id |-> aid, ArtikelID |-> AID, personen |-> pe,
            organisationen |-> og, regionen |-> re, stichwoerter |-> st,
            zusammenfassung |-> zu, userneeds |-> un, audiences |-> au,
            audience_1_begruendung |-> b1, audience_2_begruendung |-> b2,
            audience_3_begruendung |-> b3, iab_content_taxonomy |-> ia])

\* a document that holds at most these five keys
JsonObject(aid, AID, personen, userneeds, audiences) ==
    JsonDocument(aid, AID, personen, PyAbsent, PyAbsent, PyAbsent, PyAbsent,
                 userneeds, audiences, PyAbsent, PyAbsent, PyAbsent, PyAbsent)

\* the text json.dumps gives a value (no string of the universe needs escaping)
RECURSIVE Dumps(_)
Dumps(v) ==
    CASE v[1] = "none" -> "null"
      [] v[1] = "str" -> "\"" \o v[2] \o "\""
      [] v[1] = "num" -> v[2]
      [] v[1] = "list" ->
            "[" \o Join(", ", [i \in 1..Len(v[2]) |-> Dumps(v[2][i])]) \o "]"
      [] v[1] = "dict" ->
            LET present == SelectSeq(JsonKeyOrder, LAMBDA k : v[2][k] # PyAbsent)
            IN  "{" \o Join(", ", [i \in 1..Len(present) |->
                        "\"" \o present[i] \o "\": " \o Dumps(v[2][present[i]])])
                \o "}"

Foodies == PyStr("Foodies")
Sportfans == PyStr("Sportfans")

\* what a model may put under "userneeds"
UserneedsValues ==
    {PyAbsent, PyNone, PyStr(""), PyStr("Informieren"), PyStr("Vernetzen"),
     PyStr("Informieren "), PyStr("informieren"), PyNum("1"),
     PyList(<<PyStr("Informieren")>>)}

\* what a model may put under "audiences"
AudiencesValues ==
    {PyAbsent, PyNone, PyList(<<>>), PyList(<<Foodies>>),
     PyList(<<Foodies, Sportfans>>),
     PyList(<<Foodies, PyStr("Gamer"), Sportfans>>),
     PyList(<<PyStr("Gamer"), Foodies, PyStr("Rentner")>>),
     PyList(<<PyStr("foodies")>>), PyList(<<PyList(<<Foodies>>)>>),
     PyStr("Foodies"), PyNum("3")}

JsonObjects ==
    {JsonObject(aid, AID, p, u, a) :
        aid \in {PyAbsent, PyStr("999")}, AID \in {PyAbsent, PyStr("999")},
        p \in {PyAbsent, PyList(<<>>)}, u \in UserneedsValues,
        a \in AudiencesValues}

\* documents that hold every field of ArticleOutput: one as the prompt asks
\* for it, one that echoes an identifier, one with a number for the summary
CompleteObject(aid, zusammenfassung) ==
    JsonDocument(aid, PyAbsent, PyList(<<PyStr("Max Mustermann")>>),
                 PyList(<<>>), PyList(<<PyStr("Bayern")>>), PyList(<<>>),
                 zusammenfassung, PyStr("Informieren"), PyList(<<Foodies>>),
                 PyStr("Essen."), PyStr(""), PyStr(""), PyStr("Food & Drink"))

JsonCompleteObjects ==
    {CompleteObject(PyAbsent, PyStr("Ein Test")),
     CompleteObject(PyStr("999"), PyStr("Ein Test")),
     CompleteObject(PyAbsent, PyNum("1"))}

\* JSON documents that are not objects
JsonNonObjects ==
    {PyList(<<PyNum("1")>>), PyList(<<>>), PyNum("42"), PyStr("text"), PyNone}

JsonValues == JsonObjects \cup JsonCompleteObjects \cup JsonNonObjects

\* texts no JSON parser accepts
NonJsonTexts == {"not json", " ", "{\"userneeds\": ", "Informieren"}

JsonText == [v \in JsonValues |-> Dumps(v)]

JsonLoadsTable ==
    [text \in {JsonText[v] : v \in JsonValues} |->
        CHOOSE v \in JsonValues : JsonText[v] = text]

\* json.loads(text): <<"ok", value>>, or <<"error">> for a JSONDecodeError
JsonLoads(text) ==
    IF text \in DOMAIN JsonLoadsTable
    THEN <<"ok", JsonLoadsTable[text]>>
    ELSE <<"error">>

---------------------------------------------------------------------------
(* ArticleService._validate_and_score_output *)

VALID_USERNEEDS ==
    {"Informieren", "Einordnen", "Beteiligen", "Unterhalten",
     "Hilfe geben", "Erklären", "Inspirieren", "Vernetzen"}

VALID_AUDIENCES ==
    {"Foodies", "Gesundheitsbewusste", "Kunden und Arbeitnehmer",
     "Mieter und Hausbesitzer", "Verkehrsteilnehmende", "Junge Familien",
     "Freizeitjunkies", "Naturliebende", "Sportfans", "Sporttreibende",
     "Voyeuristen", "Nostalgiker", "Keine weitere"}

\* a feedback score; a score without a reason holds NoReason
NoReason == <<"absent">>
Score(name, value, reason) == [name |-> name, value |-> value, reason |-> reason]

\* opik's IsJson().score(output=...): 1.0 when json.loads accepts the text
IS_JSON_NAME == "is_json_metric"
IsJsonScore(llm_output) ==
    IF JsonLoads(llm_output)[1] = "ok"
    THEN Score(IS_JSON_NAME, 1, NoReason)
    ELSE Score(IS_JSON_NAME, 0, <<"str", "Output is not valid JSON">>)

\* hash(value) raises TypeError for lists and dicts
Hashable(v) == v[1] \notin {"list", "dict"}

\* `value in a_set_of_strings`, for a hashable value
InStrSet(v, S) == v[1] = "str" /\ v[2] \in S

\* iter(value) raises TypeError for None and numbers
Iterable(v) == v[1] \in {"list", "str", "dict"}

\* the elements a for-loop over the value visits
Elements(v) ==
    CASE v[1] = "list" -> v[2]
      [] v[1] = "str" -> [i \in 1..Len(v[2]) |-> PyStr(SubSeq(v[2], i, i))]
      [] v[1] = "dict" ->
            LET present == SelectSeq(JsonKeyOrder, LAMBDA k : v[2][k] # PyAbsent)
            IN  [i \in 1..Len(present) |-> PyStr(present[i])]
      [] OTHER -> <<>>

\* how a call ends: it returns a value or raises; `batches` are the calls of
\* opik_context.update_current_trace(feedback_scores=...) it made
Returned(value, batches) ==
    [kind |-> "return", value |-> value, exc |-> "none", batches |-> batches]
Raised(exc, batches) ==
    [kind |-> "raise", value |-> PyNone, exc |-> exc, batches |-> batches]

\* Metrik 2: the userneeds score
UserneedScore(userneed) ==
    IF InStrSet(userneed, VALID_USERNEEDS)
    THEN Score("is_valid_userneed", 1, NoReason)
    ELSE Score("is_valid_userneed", 0,
               <<"Ungültiger Wert", Format(userneed), VALID_USERNEEDS>>)

\* [a for a in audiences if a not in VALID_AUDIENCES]
InvalidFound(audiences) ==
    SelectSeq(Elements(audiences), LAMBDA a : ~InStrSet(a, VALID_AUDIENCES))

\* Metrik 3: the audiences score
AudienceScore(audiences) ==
    LET invalid_found == InvalidFound(audiences)
    IN  IF invalid_found = <<>> /\ Len(Elements(audiences)) > 0
        THEN Score("is_valid_audience", 1, NoReason)
        ELSE Score("is_valid_audience", 0,
                   IF invalid_found # <<>>
                   THEN <<"Ungültige Werte gefunden", invalid_found>>
                   ELSE <<"str", "Keine Audiences extrahiert.">>)

\* a plausible slip: the guard clause returns without sending the score
RejectNotJsonUnscored(feedback_scores) == Returned(PyNone, <<>>)

\* the guard clause: send the scores collected so far and return None
RejectNotJson(feedback_scores) == Returned(PyNone, <<feedback_scores>>)

_validate_and_score_output(llm_output) ==
    LET json_score == IsJsonScore(llm_output)
        scores1 == <<json_score>>
    IN  IF json_score.value # 1
        THEN RejectNotJson(scores1)
        ELSE
        LET data == JsonLoads(llm_output)[2]
        IN  IF data[1] # "dict"
            THEN Raised("AttributeError", <<>>)
            ELSE
            LET userneed == DictGet(data[2], "userneeds")
            IN  IF ~Hashable(userneed)
                THEN Raised("TypeError", <<>>)
                ELSE
                LET scores2 == Append(scores1, UserneedScore(userneed))
                    audiences == DictGetDefault(data[2], "audiences", PyList(<<>>))
                IN  IF ~Iterable(audiences)
                    THEN Raised("TypeError", <<>>)
                    ELSE IF \E i \in 1..Len(Elements(audiences)) :
                                ~Hashable(Elements(audiences)[i])
                    THEN Raised("TypeError", <<>>)
                    ELSE Returned(data,
                            <<Append(scores2, AudienceScore(audiences))>>)

---------------------------------------------------------------------------
(* Unit harness: one call of _prepare_input_text on any article, and one   *)
(* call of _validate_and_score_output on any completion text.              *)

UnitCompletions == {JsonText[v] : v \in JsonValues} \cup NonJsonTexts

NotCalled == [kind |-> "pending", value |-> PyNone, exc |-> "none", batches |-> <<>>]

PrepareInputText ==
    /\ u_text = Pending
    /\ u_text' = PyStr(_prepare_input_text(u_article))
    /\ UNCHANGED <<u_article, unit_validate_vars, startup_vars, request_vars>>

ValidateAndScoreOutput ==
    /\ v_ret.kind = "pending"
    /\ LET r == _validate_and_score_output(v_raw)
       IN  /\ v_ret' = r
           /\ v_trace' = v_trace \o r.batches
    /\ UNCHANGED <<v_raw, unit_prepare_vars, startup_vars, request_vars>>

---------------------------------------------------------------------------
(* main.py: load_prompt_on_startup and lifespan *)

AnweisungenKeys ==
    <<"personen", "organisationen", "regionen", "stichwoerter",
      "zusammenfassung", "userneeds", "audiences", "iab_content_taxonomy">>

Anweisungen(pe, og, re, st, zu, un, au, ia) ==
    PyDict([personen |-> pe, organisationen |-> og, regionen |-> re,
            stichwoerter |-> st, zusammenfassung |-> zu, userneeds |-> un,
            audiences |-> au, iab_content_taxonomy |-> ia])

\* the default `{}` of prompt_data.get('anweisungen', {})
EmptyAnweisungen ==
    Anweisungen(PyAbsent, PyAbsent, PyAbsent, PyAbsent, PyAbsent, PyAbsent,
                PyAbsent, PyAbsent)

PromptData(rolle, anweisungen, finale) ==
    PyDict([rolle_und_aufgabe |-> rolle, anweisungen |-> anweisungen,
            finale_anweisung |-> finale])

\* The prompt file holds a YAML document: null (an empty file), a scalar, or
\* a mapping <<"map", entries>> whose entries <<key, node>> stand in the order
\* the file lists them; the node under anweisungen may be a mapping again.
NoFile == <<"nofile">>
YamlFile(document) == <<"yaml", document>>
YamlMap(entries) == <<"map", entries>>

TopKeys == <<"rolle_und_aufgabe", "anweisungen", "finale_anweisung">>

\* the node a mapping holds under a key: yaml.safe_load keeps the last entry
\* of a key
MapEntry(entries, key) ==
    LET at == {i \in 1..Len(entries) : entries[i][1] = key}
    IN  IF at = {} THEN PyAbsent
        ELSE entries[CHOOSE i \in at : \A j \in at : j <= i][2]

\* yaml.safe_load of the node under anweisungen
LoadAnweisungen(node) ==
    IF node[1] = "map"
    THEN PyDict([k \in {AnweisungenKeys[i] : i \in 1..Len(AnweisungenKeys)} |->
                    MapEntry(node[2], k)])
    ELSE node

\* yaml.safe_load(f): a mapping becomes a dict, looked up by key
yaml_safe_load(document) ==
    IF document[1] = "map"
    THEN PyDict([k \in {TopKeys[i] : i \in 1..Len(TopKeys)} |->
                    LoadAnweisungen(MapEntry(document[2], k))])
    ELSE document

\* the mapping node that lists the keys a dict holds in the given order
MapOf(d, order) ==
    LET present == SelectSeq(order, LAMBDA k : d[k] # PyAbsent)
    IN  YamlMap([i \in 1..Len(present) |-> <<present[i], d[present[i]]>>])

\* a YAML document that loads to the value `data`, its keys listed in
\* top_order and those under anweisungen in anweisungen_order
YamlSource(data, top_order, anweisungen_order) ==
    IF data[1] # "dict" THEN data
    ELSE MapOf([k \in DOMAIN data[2] |->
                    IF data[2][k][1] = "dict"
                    THEN MapOf(data[2][k][2], anweisungen_order)
                    ELSE data[2][k]],
               top_order)

\* the fragments of a document in the order the file lists them
RECURSIVE FragmentsInFileOrder(_)
FragmentsInFileOrder(entries) ==
    IF entries = <<>> THEN <<>>
    ELSE (IF Head(entries)[2][1] = "map"
          THEN [i \in 1..Len(Head(entries)[2][2]) |-> Head(entries)[2][2][i][2]]
          ELSE <<Head(entries)[2]>>)
         \o FragmentsInFileOrder(Tail(entries))

\* a plausible slip: the fragments are joined in the order the file lists
\* them (the values of the loaded dicts) instead of the declared order
load_prompt_in_file_order(file) ==
    IF file = NoFile
    THEN Raised("RuntimeError", <<>>)
    ELSE IF file[2][1] # "map"
    THEN Raised("AttributeError", <<>>)
    ELSE
    LET prompt_parts == SelectSeq(FragmentsInFileOrder(file[2][2]), Truthy)
    IN  IF \E i \in 1..Len(prompt_parts) : ~IsStr(prompt_parts[i])
        THEN Raised("TypeError", <<>>)
        ELSE Returned(
                PyStr(Join("\n\n", [i \in 1..Len(prompt_parts) |->
                                        prompt_parts[i][2]])),
                <<>>)

load_prompt_on_startup(file) ==
    IF file = NoFile
    THEN Raised("RuntimeError", <<>>)
    ELSE
    LET prompt_data == yaml_safe_load(file[2])
    IN  IF prompt_data[1] # "dict"
        THEN Raised("AttributeError", <<>>)
        ELSE
        LET anweisungen == DictGetDefault(prompt_data[2], "anweisungen",
                                          EmptyAnweisungen)
        IN  IF anweisungen[1] # "dict"
            THEN Raised("AttributeError", <<>>)
            ELSE
            LET prompt_order ==
                    <<DictGet(prompt_data[2], "rolle_und_aufgabe")>>
                    \o [i \in 1..Len(AnweisungenKeys) |->
                            DictGet(anweisungen[2], AnweisungenKeys[i])]
                    \o <<DictGet(prompt_data[2], "finale_anweisung")>>
                prompt_parts == SelectSeq(prompt_order, Truthy)
            IN  IF \E i \in 1..Len(prompt_parts) : ~IsStr(prompt_parts[i])
                THEN Raised("TypeError", <<>>)
                ELSE Returned(
                        PyStr(Join("\n\n", [i \in 1..Len(prompt_parts) |->
                                                prompt_parts[i][2]])),
                        <<>>)

\* opik's Prompt(name=..., prompt=...)
Prompt(name, prompt) == <<"Prompt", name, prompt>>

NoAppState == [set |-> FALSE, openai_client |-> "none", system_prompt |-> PyNone]

\* the startup half of lifespan: what app.state holds at `yield`, or the
\* exception that ends the startup
lifespan(file) ==
    LET openai_client == "track_openai(AsyncOpenAI)"
        raw_system_prompt == load_prompt_on_startup(file)
    IN  IF raw_system_prompt.kind = "raise"
        THEN [error |-> raw_system_prompt.exc, state |-> NoAppState]
        ELSE [error |-> "none",
              state |-> [set |-> TRUE, openai_client |-> openai_client,
                         system_prompt |-> Prompt("vertagger_system_prompt",
                                                  raw_system_prompt.value[2])]]

Startup ==
    /\ phase = "boot"
    /\ LET started == lifespan(prompt_file)
       IN  /\ startup_error' = started.error
           /\ app_state' = started.state
           /\ phase' = IF started.error = "none" THEN "serving" ELSE "failed"
    /\ UNCHANGED <<prompt_file, unit_prepare_vars, unit_validate_vars,
                   request_vars>>

---------------------------------------------------------------------------
(* config.py: the settings object *)

V1Config == [gpt_model |-> "gpt-4o-mini", temperature |-> "0.0"]

\* AppSettings declares exactly these fields; the environment fills the
\* required ones
settings ==
    [openai_api_key |-> "sk-test", opik_api_key |-> "opik-test",
     opik_workspace |-> "ws", opik_project_name |-> "vertagger",
     v1 |-> V1Config]

\* the key the deployment issues to its callers (environment API_KEY)
ConfiguredKey == "secret"

---------------------------------------------------------------------------
(* How a request ends *)

NoOutcome ==
    [kind |-> "none", status |-> 0, detail |-> "", value |-> PyNone, exc |-> "none"]
ReturnOutcome(value) ==
    [kind |-> "return", status |-> 200, detail |-> "", value |-> value, exc |-> "none"]
\* a raised fastapi.HTTPException
HTTPException(status_code, detail) ==
    [kind |-> "http", status |-> status_code, detail |-> detail,
     value |-> PyNone, exc |-> "none"]
\* any other exception; at the HTTP boundary it is a 500 Internal Server Error
ExceptionOutcome(exc) ==
    [kind |-> "raise", status |-> 500, detail |-> "Internal Server Error",
     value |-> PyNone, exc |-> exc]

---------------------------------------------------------------------------
(* api/v1_0/models.py: ArticleOutput, the response_model of the endpoint *)

ArticleOutput ==
    <<[name |-> "artikel_id", type |-> "str"],
      [name |-> "personen", type |-> "list[str]"],
      [name |-> "organisationen", type |-> "list[str]"],
      [name |-> "regionen", type |-> "list[str]"],
      [name |-> "stichwoerter", type |-> "list[str]"],
      [name |-> "zusammenfassung", type |-> "str"],
      [name |-> "userneeds", type |-> "str"],
      [name |-> "audiences", type |-> "list[str]"],
      [name |-> "audience_1_begruendung", type |-> "str"],
      [name |-> "audience_2_begruendung", type |-> "str"],
      [name |-> "audience_3_begruendung", type |-> "str"],
      [name |-> "iab_content_taxonomy", type |-> "str"]>>

\* pydantic accepts the value for a field of this type (a missing key fails:
\* no field has a default)
ValidatesAs(v, type) ==
    CASE type = "str" -> IsStr(v)
      [] type = "list[str]" ->
            v[1] = "list" /\ \A i \in 1..Len(v[2]) : IsStr(v[2][i])
      [] OTHER -> FALSE

\* what the endpoint answers when its body returned `result`: the declared
\* fields of the dict (other keys are dropped), or a ResponseValidationError
ResponseModel(result) ==
    IF \A i \in 1..Len(ArticleOutput) :
            ValidatesAs(result[2][ArticleOutput[i].name], ArticleOutput[i].type)
    THEN ReturnOutcome(PyDict(
            [k \in DOMAIN result[2] |->
                IF \E i \in 1..Len(ArticleOutput) : ArticleOutput[i].name = k
                THEN result[2][k] ELSE PyAbsent]))
    ELSE ExceptionOutcome("ResponseValidationError")

\* extract_article_metadata: `return result` behind response_model; an
\* exception of process_article passes through
extract_article_metadata(processed) ==
    IF processed.kind = "return" THEN ResponseModel(processed.value)
    ELSE processed

---------------------------------------------------------------------------
(* api/dependencies.py: get_api_key behind APIKeyHeader(name="X-API-Key") *)

\* APIKeyHeader (auto_error) answers a request without the header itself and
\* get_api_key is not called: 401 in current FastAPI releases (older ones
\* answered 403)
NotAuthenticated == HTTPException(401, "Not authenticated")

\* the body of get_api_key: it reads settings.API_KEY
get_api_key(key) ==
    IF "API_KEY" \notin DOMAIN settings
    THEN ExceptionOutcome("AttributeError")
    ELSE IF key = settings.API_KEY
    THEN ReturnOutcome(PyStr(key))
    ELSE HTTPException(401, "Ungültiger oder fehlender API-Schlüssel")

---------------------------------------------------------------------------
(* api/v1_0/endpoints.py: get_article_service *)

get_article_service(state) ==
    [client |-> state.openai_client, model |-> settings.v1.gpt_model,
     temperature |-> settings.v1.temperature,
     system_prompt |-> state.system_prompt]

---------------------------------------------------------------------------
(* ArticleService.process_article *)

\* the arguments of self.client.chat.completions.create(...)
CreateCall(service, article_data) ==
    [model |-> service.model,
     messages |-> <<[role |-> "system", content |-> service.system_prompt],
                    [role |-> "user",
                     content |-> PyStr(_prepare_input_text(article_data))]>>,
     temperature |-> service.temperature,
     response_format |-> [type |-> "json_object"]]

\* what the awaited call gives: a completion whose message content is a
\* string or None, or a RateLimitError
RateLimitError == <<"RateLimitError">>
Completion(content) == <<"completion", content>>

\* a plausible slip: the model's own artikel_id is kept when it gave one
InjectArtikelIdKeepModel(validated_result, article_data) ==
    IF validated_result[2]["artikel_id"] # PyAbsent
    THEN validated_result
    ELSE PyDict([validated_result[2] EXCEPT
                    !["artikel_id"] = DictGet(article_data, "ArtikelID")])

\* validated_result["artikel_id"] = article_data.get("ArtikelID")
InjectArtikelId(validated_result, article_data) ==
    PyDict([validated_result[2] EXCEPT
                !["artikel_id"] = DictGet(article_data, "ArtikelID")])

\* a plausible slip: no `except RateLimitError`, the error escapes
OnRateLimitErrorUncaught == ExceptionOutcome("RateLimitError")

\* except RateLimitError: raise HTTPException(status_code=429, ...)
OnRateLimitError == HTTPException(429, "OpenAI Rate Limit überschritten.")

\* a plausible slip: `if result_str is None` instead of `if not result_str`
IsEmptyResultOnlyNone(result_str) == result_str = PyNone

\* `if not result_str`
IsEmptyResult(result_str) == ~Truthy(result_str)

\* the handler from the point where the awaited call ends:
\* [outcome, batches, validations]
AfterCreate(article_data, response) ==
    IF response = RateLimitError
    THEN [outcome |-> OnRateLimitError, batches |-> <<>>, validations |-> 0]
    ELSE
    LET result_str == response[2]
    IN  IF IsEmptyResult(result_str)
        THEN [outcome |-> HTTPException(500,
                            "OpenAI hat eine leere Antwort zurückgegeben."),
              batches |-> <<>>, validations |-> 0]
        ELSE
        LET validated == _validate_and_score_output(result_str[2])
        IN  IF validated.kind = "raise"
            THEN [outcome |-> ExceptionOutcome(validated.exc),
                  batches |-> validated.batches, validations |-> 1]
            ELSE IF validated.value = PyNone
            THEN [outcome |-> HTTPException(500,
                                "LLM-Antwort war kein valides JSON."),
                  batches |-> validated.batches, validations |-> 1]
            ELSE [outcome |-> ReturnOutcome(
                                InjectArtikelId(validated.value, article_data)),
                  batches |-> validated.batches, validations |-> 1]

---------------------------------------------------------------------------
(* The service: startup, then requests.  A request reaches process_article *)
(* through the endpoint (HttpRequest) or by a direct call of the method on *)
(* a service built from app.state (Invoke), as the repository's tests do.  *)
(* The method suspends once, at the awaited model call.                    *)

NumRequests == 2
Requests == 1..NumRequests

FullAnweisungen ==
    Anweisungen(PyStr("Personen."), PyStr("Organisationen."), PyStr("Regionen."),
                PyStr("Stichwoerter."), PyStr("Zusammenfassung."),
                PyStr("Userneeds."), PyStr("Audiences."), PyStr("IAB."))

\* what yaml.safe_load gives for the prompt files of the service model
PromptDocuments ==
    {PyNone,
     PromptData(PyAbsent, PyAbsent, PyAbsent),
     PromptData(PyStr(""), EmptyAnweisungen, PyNone),
     PromptData(PyStr("Rolle."), FullAnweisungen, PyStr("Finale.")),
     PromptData(PyStr("Rolle."), PyAbsent, PyAbsent),
     PromptData(PyStr("Rolle."), PyNone, PyStr("Finale.")),
     PromptData(PyNum("1"), PyAbsent, PyAbsent),
     PromptData(PyAbsent,
                Anweisungen(PyAbsent, PyAbsent, PyAbsent, PyAbsent, PyAbsent,
                            PyStr("Userneeds."), PyStr(""), PyAbsent),
                PyStr("Finale."))}

Reverse(seq) == [i \in 1..Len(seq) |-> seq[Len(seq) + 1 - i]]

\* the prompt files of the service model: no file, each document with its
\* keys in the declared order, and the complete one with its keys reversed
PromptFiles ==
    {NoFile}
    \cup {YamlFile(YamlSource(data, TopKeys, AnweisungenKeys)) :
            data \in PromptDocuments}
    \cup {YamlFile(YamlSource(
                PromptData(PyStr("Rolle."), FullAnweisungen, PyStr("Finale.")),
                Reverse(TopKeys), Reverse(AnweisungenKeys)))}

Article(id, titel, subtitel, teaser, text) ==
    [ArtikelID |-> id, Titel |-> titel, Subtitel |-> subtitel,
     Teaser |-> teaser, Text |-> text]

Articles ==
    {Article(PyStr("42"), PyStr("T"), PyNone, PyNone, PyStr("Body")),
     Article(PyStr("7"), PyStr("Titel"), PyStr(""), PyStr("Tea"), PyNone)}

NoHeader == PyNone
Headers == {NoHeader, PyStr(ConfiguredKey), PyStr("wrong")}

\* the completions the provider may give in the service model
ServiceJson ==
    {JsonObject(PyAbsent, PyAbsent, PyList(<<>>), PyStr("Informieren"),
                PyList(<<Foodies>>)),
     JsonObject(PyStr("999"), PyStr("999"), PyAbsent, PyStr("Vernetzen"),
                PyList(<<Foodies, Sportfans>>)),
     JsonObject(PyStr("999"), PyAbsent, PyAbsent, PyStr("informieren"),
                PyList(<<>>)),
     JsonObject(PyAbsent, PyAbsent, PyAbsent, PyAbsent,
                PyList(<<Foodies, PyStr("Gamer"), Sportfans>>)),
     JsonObject(PyAbsent, PyAbsent, PyAbsent, PyList(<<PyStr("Informieren")>>),
                PyList(<<Foodies>>)),
     JsonObject(PyAbsent, PyAbsent, PyAbsent, PyStr("Informieren"), PyNone),
     PyList(<<PyNum("1")>>)}

ServiceNonJson == {"not json", " ", "{\"userneeds\": "}

ProviderResponses ==
    {RateLimitError, Completion(PyNone), Completion(PyStr(""))}
    \cup {Completion(PyStr(text)) : text \in ServiceNonJson}
    \cup {Completion(PyStr(JsonText[v])) : v \in ServiceJson}

NoResponse == <<"none">>

InitRequests ==
    /\ pc = [r \in Requests |-> "idle"]
    /\ via = [r \in Requests |-> "none"]
    /\ header = [r \in Requests |-> NoHeader]
    /\ article = [r \in Requests |-> NoArticle]
    /\ sent = [r \in Requests |-> <<>>]
    /\ completion = [r \in Requests |-> NoResponse]
    /\ trace = [r \in Requests |-> <<>>]
    /\ validator_calls = [r \in Requests |-> 0]
    /\ outcome = [r \in Requests |-> NoOutcome]
    /\ overlapped = FALSE

InitUnits ==
    /\ u_article = NoArticle
    /\ u_text = Pending
    /\ v_raw = ""
    /\ v_ret = NotCalled
    /\ v_trace = <<>>

InitStartup ==
    /\ phase = "boot"
    /\ app_state = NoAppState
    /\ startup_error = "none"

Init ==
    /\ InitUnits
    /\ InitStartup
    /\ prompt_file \in PromptFiles
    /\ InitRequests

\* a plausible slip: a second, fallback model is asked alongside the first
EnterProcessArticleWithFallback(r, article_data) ==
    /\ sent' = [sent EXCEPT ![r] =
                    @ \o <<CreateCall(get_article_service(app_state), article_data),
                           [CreateCall(get_article_service(app_state), article_data)
                                EXCEPT !.model = "gpt-4o"]>>]
    /\ pc' = [pc EXCEPT ![r] = "awaiting"]
    /\ outcome' = outcome
    /\ overlapped' = (overlapped \/ \E q \in Requests : pc[q] = "awaiting")

\* process_article up to the awaited call
EnterProcessArticle(r, article_data) ==
    /\ sent' = [sent EXCEPT ![r] =
                    Append(@, CreateCall(get_article_service(app_state),
                                         article_data))]
    /\ pc' = [pc EXCEPT ![r] = "awaiting"]
    /\ outcome' = outcome
    /\ overlapped' = (overlapped \/ \E q \in Requests : pc[q] = "awaiting")

\* POST /api/v1_0/extract_metadata: the dependencies, then the endpoint body
HttpRequest(r) ==
    /\ phase = "serving"
    /\ pc[r] = "idle"
    /\ \E h \in Headers, a \in Articles :
        /\ via' = [via EXCEPT ![r] = "http"]
        /\ header' = [header EXCEPT ![r] = h]
        /\ article' = [article EXCEPT ![r] = a]
        /\ IF ~Truthy(h)
           THEN /\ outcome' = [outcome EXCEPT ![r] = NotAuthenticated]
                /\ pc' = [pc EXCEPT ![r] = "done"]
                /\ UNCHANGED <<sent, overlapped>>
           ELSE LET api_key == get_api_key(h[2])
                IN  IF api_key.kind # "return"
                    THEN /\ outcome' = [outcome EXCEPT ![r] = api_key]
                         /\ pc' = [pc EXCEPT ![r] = "done"]
                         /\ UNCHANGED <<sent, overlapped>>
                    ELSE EnterProcessArticle(r, a)
    /\ UNCHANGED <<completion, trace, validator_calls, startup_vars,
                   unit_prepare_vars, unit_validate_vars>>

\* a direct call service.process_article(article_data)
Invoke(r) ==
    /\ phase = "serving"
    /\ pc[r] = "idle"
    /\ \E a \in Articles :
        /\ via' = [via EXCEPT ![r] = "direct"]
        /\ article' = [article EXCEPT ![r] = a]
        /\ EnterProcessArticle(r, a)
    /\ UNCHANGED <<header, completion, trace, validator_calls, startup_vars,
                   unit_prepare_vars, unit_validate_vars>>

\* a plausible slip: the article is kept in one slot shared by all calls, so
\* that a call resumes with the article of whichever request wrote it last
ModelRespondsSharedArticle(r) ==
    /\ pc[r] = "awaiting"
    /\ \E response \in ProviderResponses, q \in Requests :
        /\ pc[q] # "idle"
        /\ LET after == AfterCreate(article[q], response)
           IN  /\ completion' = [completion EXCEPT ![r] = response]
               /\ outcome' = [outcome EXCEPT ![r] =
                               IF via[r] = "http"
                               THEN extract_article_metadata(after.outcome)
                               ELSE after.outcome]
               /\ trace' = [trace EXCEPT ![r] = @ \o after.batches]
               /\ validator_calls' =
                        [validator_calls EXCEPT ![r] = @ + after.validations]
    /\ pc' = [pc EXCEPT ![r] = "done"]
    /\ UNCHANGED <<via, header, article, sent, overlapped, startup_vars,
                   unit_prepare_vars, unit_validate_vars>>

\* the awaited call ends and process_article runs to its end
ModelResponds(r) ==
    /\ pc[r] = "awaiting"
    /\ \E response \in ProviderResponses :
        LET after == AfterCreate(article[r], response)
        IN  /\ completion' = [completion EXCEPT ![r] = response]
            /\ outcome' = [outcome EXCEPT ![r] =
                            IF via[r] = "http"
                            THEN extract_article_metadata(after.outcome)
                            ELSE after.outcome]
            /\ trace' = [trace EXCEPT ![r] = @ \o after.batches]
            /\ validator_calls' = [validator_calls EXCEPT ![r] = @ + after.validations]
    /\ pc' = [pc EXCEPT ![r] = "done"]
    /\ UNCHANGED <<via, header, article, sent, overlapped, startup_vars,
                   unit_prepare_vars, unit_validate_vars>>

Next ==
    \/ Startup
    \/ \E r \in Requests : HttpRequest(r)
    \/ \E r \in Requests : Invoke(r)
    \/ \E r \in Requests : ModelResponds(r)

Spec == Init /\ [][Next]_vars

\* one call of _prepare_input_text
InitPrepare ==
    /\ u_article \in UnitArticles
    /\ u_text = Pending
    /\ v_raw = ""
    /\ v_ret = NotCalled
    /\ v_trace = <<>>
    /\ InitStartup
    /\ prompt_file = NoFile
    /\ InitRequests

SpecPrepare == InitPrepare /\ [][PrepareInputText]_vars

\* one call of _validate_and_score_output
InitValidate ==
    /\ u_article = NoArticle
    /\ u_text = Pending
    /\ v_raw \in UnitCompletions
    /\ v_ret = NotCalled
    /\ v_trace = <<>>
    /\ InitStartup
    /\ prompt_file = NoFile
    /\ InitRequests

SpecValidate == InitValidate /\ [][ValidateAndScoreOutput]_vars

\* one startup on any of the prompt files below: each document with its
\* top-level keys in every order and its anweisungen keys in three orders
TopOrders ==
    {<<TopKeys[a], TopKeys[b], TopKeys[c]>> :
        <<a, b, c>> \in {t \in (1..3) \X (1..3) \X (1..3) :
                            Cardinality({t[1], t[2], t[3]}) = 3}}

AnweisungenOrders ==
    {AnweisungenKeys, Reverse(AnweisungenKeys),
     <<"audiences", "iab_content_taxonomy", "organisationen", "personen",
       "regionen", "stichwoerter", "userneeds", "zusammenfassung">>}

PartialAnweisungen ==
    Anweisungen(PyStr("Personen."), PyAbsent, PyStr(""), PyNone,
                PyStr("Zusammenfassung."), PyAbsent, PyStr("Audiences."),
                PyStr("IAB."))

StartupDocuments ==
    {PyNone}
    \cup {PromptData(rolle, anweisungen, finale) :
            rolle \in {PyAbsent, PyStr(""), PyStr("Rolle.")},
            anweisungen \in {PyAbsent, EmptyAnweisungen, PartialAnweisungen,
                             FullAnweisungen},
            finale \in {PyAbsent, PyNone, PyStr("Finale.")}}

StartupFiles ==
    {NoFile}
    \cup {YamlFile(YamlSource(data, top_order, anweisungen_order)) :
            data \in StartupDocuments, top_order \in TopOrders,
            anweisungen_order \in AnweisungenOrders}

InitStartupOnly ==
    /\ InitUnits
    /\ InitStartup
    /\ prompt_file \in StartupFiles
    /\ InitRequests

SpecStartup == InitStartupOnly /\ [][Startup]_vars

---------------------------------------------------------------------------
(* Claims *)

\* C1 (SpecPrepare): the text _prepare_input_text returns is the header line
\* followed, for each of ArtikelID, Titel, Subtitel, Teaser, Text in this
\* order, by a blank line and the block "--- <field> ---\n<value>" when the
\* field's value is a non-empty string, and by nothing when it is empty or
\* None; with only identifier and title set it is the header and exactly the
\* two blocks of identifier and title.
C1_UserContentBlocks ==
    u_text # Pending =>
        LET NonEmpty(key) == u_article[key] \notin {PyNone, PyAbsent, PyStr("")}
            Segment(key) ==
                IF NonEmpty(key)
                THEN "\n\n--- " \o key \o " ---\n" \o u_article[key][2]
                ELSE ""
        IN  /\ u_text[2] = HEADER_LINE \o Segment("ArtikelID") \o Segment("Titel")
                            \o Segment("Subtitel") \o Segment("Teaser")
                            \o Segment("Text")
            /\ (/\ NonEmpty("ArtikelID") /\ NonEmpty("Titel")
                /\ ~NonEmpty("Subtitel") /\ ~NonEmpty("Teaser") /\ ~NonEmpty("Text"))
               => u_text[2] = HEADER_LINE
                              \o "\n\n--- ArtikelID ---\n" \o u_article.ArtikelID[2]
                              \o "\n\n--- Titel ---\n" \o u_article.Titel[2]

\* C1 witness: the call has returned for an article with only identifier and
\* title set, one optional field being None and another the empty string
C1_Witness ==
    /\ u_text # Pending
    /\ u_article.ArtikelID = PyStr("42")
    /\ u_article.Titel = PyStr("T")
    /\ u_article.Subtitel = PyNone
    /\ u_article.Teaser = PyStr("")
    /\ u_article.Text = PyNone

\* what json.loads gives for the completion text of request r
ParsedCompletion(r) == JsonLoads(completion[r][2][2])[2]

\* request r got a completion whose content is a non-empty string
HasContent(r) ==
    /\ completion[r][1] = "completion"
    /\ completion[r][2] \notin {PyNone, PyStr("")}

\* the trace of request r holds a batch that scores the completion valid JSON
ScoredValidJson(r) ==
    \E i \in 1..Len(trace[r]) :
        trace[r][i][1] = Score(IS_JSON_NAME, 1, NoReason)

\* C2 as stated (Spec): whenever process_article returns, the mapping holds
\* the caller's identifier under artikel_id, and a model-produced artikel_id
\* or ArtikelID field holds the caller's identifier too.
C2_Original ==
    \A r \in Requests :
        outcome[r].kind = "return" =>
            /\ outcome[r].value[2].artikel_id = article[r].ArtikelID
            /\ outcome[r].value[2].ArtikelID \in {PyAbsent, article[r].ArtikelID}

\* C2 as amended (Spec): whenever process_article returns, the mapping holds
\* the caller's identifier under artikel_id, whatever the model gave for that
\* key; every other key, ArtikelID included, holds what the model gave; and
\* the validator ran once and scored the completion valid JSON.
C2_ArtikelIdInjected ==
    \A r \in Requests :
        outcome[r].kind = "return" =>
            /\ outcome[r].value[2].artikel_id = article[r].ArtikelID
            /\ \A k \in DOMAIN outcome[r].value[2] \ {"artikel_id"} :
                    outcome[r].value[2][k] = ParsedCompletion(r)[2][k]
            /\ validator_calls[r] = 1
            /\ ScoredValidJson(r)

\* C2 witness: a call returned although the model echoed another artikel_id
C2_Witness ==
    \E r \in Requests :
        /\ outcome[r].kind = "return"
        /\ ParsedCompletion(r)[2].artikel_id = PyStr("999")
        /\ article[r].ArtikelID = PyStr("42")

\* C3 (Spec): when the awaited call raises RateLimitError, process_article
\* ends with HTTPException 429 after that one call, the validator was not
\* invoked and the request's trace holds no score batch.
C3_RateLimited ==
    \A r \in Requests :
        completion[r] = RateLimitError =>
            /\ pc[r] = "done"
            /\ Len(sent[r]) = 1
            /\ outcome[r].kind = "http"
            /\ outcome[r].status = 429
            /\ outcome[r].detail = "OpenAI Rate Limit überschritten."
            /\ validator_calls[r] = 0
            /\ trace[r] = <<>>

\* C3 witness: a request whose model call was rate limited has ended
C3_Witness ==
    \E r \in Requests : pc[r] = "done" /\ completion[r] = RateLimitError

\* C4 (Spec): when the completion's content is None or the empty string,
\* process_article ends with HTTPException 500 and the empty-response
\* message, the validator was not invoked and no score batch was sent.
C4_EmptyCompletion ==
    \A r \in Requests :
        completion[r] \in {Completion(PyNone), Completion(PyStr(""))} =>
            /\ outcome[r].kind = "http"
            /\ outcome[r].status = 500
            /\ outcome[r].detail = "OpenAI hat eine leere Antwort zurückgegeben."
            /\ validator_calls[r] = 0
            /\ trace[r] = <<>>

\* C4 witness: one request ended on a None content, another on an empty string
C4_Witness ==
    \E r, q \in Requests :
        /\ pc[r] = "done" /\ completion[r] = Completion(PyNone)
        /\ pc[q] = "done" /\ completion[q] = Completion(PyStr(""))

\* C5 (Spec): when the completion is a non-empty text that is not JSON, the
\* validator runs once and sends exactly one batch holding exactly one score,
\* the JSON-validity score with value 0 (so no userneeds or audiences score),
\* and process_article ends with HTTPException 500 and the invalid-JSON
\* message, returning no mapping.
C5_NotJsonRejected ==
    \A r \in Requests :
        (completion[r][1] = "completion" /\ IsStr(completion[r][2])
            /\ completion[r][2][2] \in ServiceNonJson) =>
            /\ validator_calls[r] = 1
            /\ Len(trace[r]) = 1
            /\ Len(trace[r][1]) = 1
            /\ trace[r][1][1].name = IS_JSON_NAME
            /\ trace[r][1][1].value = 0
            /\ outcome[r].kind = "http"
            /\ outcome[r].status = 500
            /\ outcome[r].detail = "LLM-Antwort war kein valides JSON."
            /\ outcome[r].value = PyNone

\* C5 witness: a request ended on the completion text "not json"
C5_Witness ==
    \E r \in Requests :
        pc[r] = "done" /\ completion[r] = Completion(PyStr("not json"))

\* the scores named `name` among those the validator call sent
SentScores(name) ==
    IF Len(v_trace) = 1
    THEN SelectSeq(v_trace[1], LAMBDA score : score.name = name)
    ELSE <<>>

\* the value the validated document holds under `key` (absent when the
\* document is not an object)
DocumentField(key) ==
    LET data == JsonLoads(v_raw)[2]
    IN  IF data[1] = "dict" THEN data[2][key] ELSE PyAbsent

\* audiences is absent or a list of strings
PlainAudiences(audiences) ==
    \/ audiences = PyAbsent
    \/ /\ audiences[1] = "list"
       /\ \A i \in 1..Len(audiences[2]) : IsStr(audiences[2][i])

\* C6 as stated (SpecValidate), on the JSON objects whose audiences field is
\* absent or a list of strings: the validator sends exactly one
\* is_valid_userneed score; its value is 1 when the userneeds value is a
\* string of the allow-list, and otherwise (empty string, null, absent,
\* near-miss, any other value) 0 with a reason that names the value.
C6_UserneedScored ==
    (v_ret.kind # "pending" /\ JsonLoads(v_raw)[1] = "ok"
        /\ JsonLoads(v_raw)[2][1] = "dict"
        /\ PlainAudiences(DocumentField("audiences"))) =>
        LET userneed == DocumentField("userneeds")
            scores == SentScores("is_valid_userneed")
        IN  /\ Len(scores) = 1
            /\ IF IsStr(userneed) /\ userneed[2] \in VALID_USERNEEDS
               THEN scores[1].value = 1
               ELSE /\ scores[1].value = 0
                    /\ scores[1].reason[1] = "Ungültiger Wert"
                    /\ IsStr(userneed) => scores[1].reason[2] = userneed[2]
                    /\ userneed \in {PyNone, PyAbsent} => scores[1].reason[2] = "None"

\* C7 as stated (SpecValidate), on the JSON objects whose userneeds field is
\* absent, null, a string or a number: the validator sends exactly one
\* is_valid_audience score; its value is 1 exactly when audiences is a
\* non-empty list whose elements are all in the allow-list; otherwise it is
\* 0, the reason listing exactly the elements outside the allow-list when
\* there are any, and "Keine Audiences extrahiert." when the list is empty
\* or absent.
C7_AudienceScored ==
    (v_ret.kind # "pending" /\ JsonLoads(v_raw)[1] = "ok"
        /\ JsonLoads(v_raw)[2][1] = "dict"
        /\ DocumentField("userneeds")[1] \in {"absent", "none", "str", "num"}) =>
        LET audiences == DocumentField("audiences")
            scores == SentScores("is_valid_audience")
            Allowed(a) == IsStr(a) /\ a[2] \in VALID_AUDIENCES
            IsList == audiences[1] = "list"
            AllAllowed == IsList /\ \A i \in 1..Len(audiences[2]) : Allowed(audiences[2][i])
        IN  /\ Len(scores) = 1
            /\ scores[1].value = 1 <=> (AllAllowed /\ audiences[2] # <<>>)
            /\ (IsList /\ ~AllAllowed) =>
                    scores[1].reason =
                        <<"Ungültige Werte gefunden",
                          SelectSeq(audiences[2], LAMBDA a : ~Allowed(a))>>
            /\ (audiences = PyAbsent \/ audiences = PyList(<<>>)) =>
                    scores[1].reason = <<"str", "Keine Audiences extrahiert.">>

\* C8 as stated (Spec), on the completions that are JSON objects: whenever
\* the completion passes the JSON-validity check, process_article returns,
\* and the mapping it returns holds, apart from artikel_id, the keys and
\* values of the model's document, whatever the userneeds and audiences
\* values are.
C8_OnlySyntaxGates ==
    \A r \in Requests :
        (pc[r] = "done" /\ HasContent(r)
            /\ JsonLoads(completion[r][2][2])[1] = "ok"
            /\ ParsedCompletion(r)[1] = "dict") =>
            /\ outcome[r].kind = "return"
            /\ \A k \in DOMAIN outcome[r].value[2] \ {"artikel_id"} :
                    outcome[r].value[2][k] = ParsedCompletion(r)[2][k]

\* C9 as stated (Spec): a request to the endpoint whose X-API-Key header is
\* missing or differs from the configured key is answered 401 and makes no
\* model call; a request with the configured key is admitted to
\* process_article.
C9_ApiKeyGate ==
    \A r \in Requests :
        via[r] = "http" =>
            IF header[r] = PyStr(ConfiguredKey)
            THEN sent[r] # <<>>
            ELSE /\ outcome[r].kind = "http"
                 /\ outcome[r].status = 401
                 /\ sent[r] = <<>>

\* the fragments a prompt file holds under the ten keys of the prompt order
FileFragments(file) ==
    IF file = NoFile \/ file[2][1] # "map"
    THEN {}
    ELSE LET data == yaml_safe_load(file[2])[2]
         IN  {data.rolle_und_aufgabe, data.finale_anweisung}
             \cup (IF data.anweisungen[1] = "dict"
                    THEN {data.anweisungen[2][k] :
                            k \in DOMAIN data.anweisungen[2]}
                    ELSE {})

\* C10 as stated (Spec): when the prompt file is missing, is an empty
\* document or holds no fragment with text, the startup fails and the service
\* never serves; and no model call carries an empty system prompt.
C10_NoServingWithoutPrompt ==
    /\ (\A f \in FileFragments(prompt_file) : ~IsStr(f) \/ f = PyStr(""))
            => phase # "serving"
    /\ \A r \in Requests :
            \A i \in 1..Len(sent[r]) : sent[r][i].messages[1].content[3] # ""

\* the body of the HTTP response of request r
ResponseBody(r) == outcome[r].value[2]

\* C11 as stated (Spec): a POST to the endpoint that carries the configured
\* API key reaches the model, and when the model answers with a JSON object
\* the response is 200 and its body holds the request's ArtikelID under
\* artikel_id and, under userneeds, personen and audiences, what the model
\* gave (scenario A: the object holds only personen, userneeds, audiences).
C11_EndpointSuccess ==
    \A r \in Requests :
        (via[r] = "http" /\ header[r] = PyStr(ConfiguredKey) /\ pc[r] = "done") =>
            /\ completion[r] # NoResponse
            /\ (/\ HasContent(r)
                /\ JsonLoads(completion[r][2][2])[1] = "ok"
                /\ ParsedCompletion(r)[1] = "dict") =>
                    /\ outcome[r].kind = "return"
                    /\ outcome[r].status = 200
                    /\ ResponseBody(r).artikel_id = article[r].ArtikelID
                    /\ \A k \in {"personen", "userneeds", "audiences"} :
                            ResponseBody(r)[k] = ParsedCompletion(r)[2][k]

\* request r is a call of process_article that has ended
Processed(r) == pc[r] = "done" /\ completion[r] # NoResponse

\* C12 (Spec): every process_article call makes exactly one call of
\* chat.completions.create, while it waits for the answer and after it has
\* ended, whether it returned, was rate limited, got an empty completion or
\* an invalid output; a request that never entered process_article made none.
C12_SingleModelCall ==
    \A r \in Requests :
        /\ Len(sent[r]) <= 1
        /\ (pc[r] = "awaiting" \/ via[r] = "direct" \/ Processed(r))
                => Len(sent[r]) = 1
        /\ (pc[r] = "done" /\ completion[r] = NoResponse) => sent[r] = <<>>

\* C12 witness: one call ended rate limited and another on an invalid output
C12_Witness ==
    \E r, q \in Requests :
        /\ Processed(r) /\ completion[r] = RateLimitError
        /\ Processed(q) /\ outcome[q].kind = "http" /\ outcome[q].status = 500
        /\ validator_calls[q] = 1

\* the completion of request r is a text that json.loads accepts
IsJsonCompletion(r) ==
    HasContent(r) /\ JsonLoads(completion[r][2][2])[1] = "ok"

\* the completion of request r is a JSON object on which an enum check
\* raises (the cases of C6 and C7)
EnumCheckRaises(r) ==
    /\ IsJsonCompletion(r)
    /\ ParsedCompletion(r)[1] = "dict"
    /\ \/ ParsedCompletion(r)[2].userneeds[1] \in {"list", "dict"}
       \/ ~PlainAudiences(ParsedCompletion(r)[2].audiences)

\* the four outcomes of process_article
IsReturnedMapping(o) == o.kind = "return" /\ o.value[1] = "dict"
IsRateLimited(o) == o.kind = "http" /\ o.status = 429
IsEmptyCompletion(o) ==
    o = HTTPException(500, "OpenAI hat eine leere Antwort zurückgegeben.")
IsInvalidModelOutput(o) ==
    o = HTTPException(500, "LLM-Antwort war kein valides JSON.")

\* C13 as stated (Spec), on every provider answer but the JSON objects of
\* C6 and C7: a process_article call that has ended has returned a mapping
\* or raised RateLimited (429), EmptyCompletion (500) or InvalidModelOutput
\* (500), no other exception escapes; and a completion that is JSON but not
\* an object (array, number, string, null) ends as InvalidModelOutput.
C13_FourOutcomes ==
    \A r \in Requests :
        (Processed(r) /\ ~EnumCheckRaises(r)) =>
            /\ \/ IsReturnedMapping(outcome[r])
               \/ IsRateLimited(outcome[r])
               \/ IsEmptyCompletion(outcome[r])
               \/ IsInvalidModelOutput(outcome[r])
            /\ (IsJsonCompletion(r) /\ ParsedCompletion(r)[1] # "dict")
                    => IsInvalidModelOutput(outcome[r])

\* the validator call was handed a JSON object on which an enum check raises
\* (the cases of C6 and C7)
UnitEnumCheckRaises ==
    /\ JsonLoads(v_raw)[1] = "ok"
    /\ JsonLoads(v_raw)[2][1] = "dict"
    /\ \/ DocumentField("userneeds")[1] \in {"list", "dict"}
       \/ ~PlainAudiences(DocumentField("audiences"))

\* the names of the scores of a batch, in order
ScoreNames(batch) == [i \in 1..Len(batch) |-> batch[i].name]

\* C14 as stated (SpecValidate), on every text but the JSON objects of C6
\* and C7: a validator call that has ended has sent exactly one batch; the
\* batch holds exactly the JSON-validity score when the text is not JSON, and
\* exactly the JSON-validity, is_valid_userneed and is_valid_audience scores
\* in this order when it is.
C14_OneBatch ==
    (v_ret.kind # "pending" /\ ~UnitEnumCheckRaises) =>
        /\ Len(v_trace) = 1
        /\ ScoreNames(v_trace[1]) =
                IF JsonLoads(v_raw)[1] = "ok"
                THEN <<IS_JSON_NAME, "is_valid_userneed", "is_valid_audience">>
                ELSE <<IS_JSON_NAME>>

\* C15 as stated (Spec): every model call carries exactly two messages, the
\* first with role system and, as content, the prompt text assembled from
\* the prompt file at startup, the second with role user and, as content,
\* the text _prepare_input_text gives for the request's article; and it
\* carries the configured model name, the configured temperature and the
\* response format json_object.
C15_ModelCallArguments ==
    \A r \in Requests :
        \A i \in 1..Len(sent[r]) :
            LET call == sent[r][i]
            IN  /\ Len(call.messages) = 2
                /\ call.messages[1].role = "system"
                /\ call.messages[1].content =
                        load_prompt_on_startup(prompt_file).value
                /\ call.messages[2].role = "user"
                /\ call.messages[2].content =
                        PyStr(_prepare_input_text(article[r]))
                /\ call.model = settings.v1.gpt_model
                /\ call.temperature = settings.v1.temperature
                /\ call.response_format = [type |-> "json_object"]

\* what the call of request r gives on its own article and its own completion
OwnOutcome(r) ==
    IF via[r] = "http"
    THEN extract_article_metadata(AfterCreate(article[r], completion[r]).outcome)
    ELSE AfterCreate(article[r], completion[r]).outcome

\* C16 (Spec): with calls of process_article interleaved at their awaited
\* model call, no step of a call changes the service's client, model,
\* temperature or system prompt, nor the article of any request that has
\* been received; the model call of a request carries its own article; and
\* the outcome and the scores of a call that has ended are those of its own
\* article and its own completion, a returned mapping holding its own
\* caller's identifier under artikel_id.
C16_NoSharedWrites ==
    /\ [](\A r \in Requests :
            /\ \A i \in 1..Len(sent[r]) :
                    sent[r][i].messages[2].content =
                        PyStr(_prepare_input_text(article[r]))
            /\ Processed(r) =>
                    /\ outcome[r] = OwnOutcome(r)
                    /\ trace[r] = AfterCreate(article[r], completion[r]).batches
                    /\ outcome[r].kind = "return" =>
                            outcome[r].value[2].artikel_id = article[r].ArtikelID)
    /\ [][/\ phase = "serving" =>
                /\ get_article_service(app_state') = get_article_service(app_state)
                /\ prompt_file' = prompt_file
           /\ \A r \in Requests :
                pc[r] # "idle" => article'[r] = article[r]]_vars

\* C16 witness: two calls for different articles have both returned, one of
\* them having entered process_article while the other waited for the model
C16_Witness ==
    \E r, q \in Requests :
        /\ overlapped
        /\ article[r].ArtikelID # article[q].ArtikelID
        /\ Processed(r) /\ outcome[r].kind = "return"
        /\ Processed(q) /\ outcome[q].kind = "return"
        /\ ParsedCompletion(r)[2].artikel_id = PyStr("999")

\* the text the prompt file holds under a top-level key, or under a key of
\* its anweisungen mapping, wherever the file lists the key; "" when the key
\* is missing or holds no text
TextOf(node) == IF IsStr(node) THEN node[2] ELSE ""
TopFragment(file, key) == TextOf(MapEntry(file[2][2], key))
AnweisungFragment(file, key) ==
    LET anweisungen == MapEntry(file[2][2], "anweisungen")
    IN  IF anweisungen[1] = "map"
        THEN TextOf(MapEntry(anweisungen[2], key))
        ELSE ""

\* C17 (SpecStartup): when load_prompt_on_startup returns, the text is the
\* non-empty fragments of rolle_und_aufgabe, then of anweisungen personen,
\* organisationen, regionen, stichwoerter, zusammenfassung, userneeds,
\* audiences, iab_content_taxonomy, then of finale_anweisung, joined by
\* exactly "\n\n"; and the startup gives the same result as for the file that
\* lists the same keys in the declared order.
C17_DeclaredOrder ==
    phase = "serving" =>
        /\ app_state.system_prompt[3] =
                Join("\n\n", SelectSeq(
                    <<TopFragment(prompt_file, "rolle_und_aufgabe"),
                      AnweisungFragment(prompt_file, "personen"),
                      AnweisungFragment(prompt_file, "organisationen"),
                      AnweisungFragment(prompt_file, "regionen"),
                      AnweisungFragment(prompt_file, "stichwoerter"),
                      AnweisungFragment(prompt_file, "zusammenfassung"),
                      AnweisungFragment(prompt_file, "userneeds"),
                      AnweisungFragment(prompt_file, "audiences"),
                      AnweisungFragment(prompt_file, "iab_content_taxonomy"),
                      TopFragment(prompt_file, "finale_anweisung")>>,
                    LAMBDA text : text # ""))
        /\ app_state =
                lifespan(YamlFile(YamlSource(yaml_safe_load(prompt_file[2]),
                            <<"rolle_und_aufgabe", "anweisungen",
                              "finale_anweisung">>,
                            <<"personen", "organisationen", "regionen",
                              "stichwoerter", "zusammenfassung", "userneeds",
                              "audiences", "iab_content_taxonomy">>))).state

\* C17 witness: the startup has loaded the complete document from a file
\* that lists finale_anweisung first and rolle_und_aufgabe last, and the
\* anweisungen keys from iab_content_taxonomy back to personen
C17_Witness ==
    /\ phase = "serving"
    /\ prompt_file[2] =
            YamlMap(<<
                <<"finale_anweisung", PyStr("Finale.")>>,
                <<"anweisungen", YamlMap(<<
                    <<"iab_content_taxonomy", PyStr("IAB.")>>,
                    <<"audiences", PyStr("Audiences.")>>,
                    <<"userneeds", PyStr("Userneeds.")>>,
                    <<"zusammenfassung", PyStr("Zusammenfassung.")>>,
                    <<"stichwoerter", PyStr("Stichwoerter.")>>,
                    <<"regionen", PyStr("Regionen.")>>,
                    <<"organisationen", PyStr("Organisationen.")>>,
                    <<"personen", PyStr("Personen.")>> >>)>>,
                <<"rolle_und_aufgabe", PyStr("Rolle.")>> >>)
    /\ app_state.system_prompt[3] =
            "Rolle.\n\nPersonen.\n\nOrganisationen.\n\nRegionen.\n\n"
            \o "Stichwoerter.\n\nZusammenfassung.\n\nUserneeds.\n\n"
            \o "Audiences.\n\nIAB.\n\nFinale."

====
